---- MODULE Spec2Model ----
(***************************************************************************)
(* Media acquisition and extraction pipeline of ShortsEditor:             *)
(*   lib/video-download  (VideoDownloadService, src/unnamed/part_004)      *)
(*   lib/video-cropping  (VideoCroppingService, src/unnamed/part_003)      *)
(*   app/api/download    (POST route,           src/unnamed/part_009)      *)
(* Each action is one synchronous run of the event loop: the code between  *)
(* two awaits / event callbacks.  Time is counted in hours (clock); the    *)
(* millisecond stamps Date.now() puts into file names are the counter ms.  *)
(***************************************************************************)
EXTENDS Integers, Sequences, FiniteSets, TLC

(* ------------------------------ bounds --------------------------------- *)
MaxFormats == 3        \* longest catalog (info.formats) drawn
MaxRetriesBound == 3   \* largest maxRetries argument drawn
NumTasks == 2          \* concurrent request handlers
MaxClock == 4          \* last hour the clock reaches
MaxRequests == 3       \* POST /api/download requests per run

Tasks == 1..NumTasks

(* --------------------------- format catalog ---------------------------- *)
\* One ytdl videoFormat: height 0 / audioBitrate 0 stand for an absent field.
Fmt(i, k, c, h, b) ==
  [itag |-> i, kind |-> k, container |-> c, height |-> h, audioBitrate |-> b]

FormatUniverse ==
  { Fmt(18,  "videoandaudio", "mp4",  360,  96),
    Fmt(135, "videoonly",     "mp4",  480,  0),
    Fmt(137, "videoonly",     "mp4",  1080, 0),
    Fmt(313, "videoonly",     "webm", 2160, 0),
    Fmt(251, "audioonly",     "webm", 0,    160),
    Fmt(141, "audioonly",     "mp4",  0,    256) }

NoFormat == Fmt(0, "none", "none", 0, 0)

RECURSIVE SeqsNoRep(_, _)
\* sequences of at most n distinct elements of S: the order info.formats lists them
SeqsNoRep(S, n) ==
  IF n = 0 THEN { <<>> }
  ELSE LET shorter == SeqsNoRep(S, n - 1)
       IN  shorter \cup
           { Append(p[1], p[2]) :
               p \in { q \in shorter \X S : \A i \in 1..Len(q[1]) : q[1][i] # q[2] } }

Catalogs == SeqsNoRep(FormatUniverse, MaxFormats)

\* ytdl.filterFormats(formats, filter): keeps the catalog's order
filterFormats(formats, filter) ==
  SelectSeq(formats, LAMBDA f : f.kind = filter)

RECURSIVE InsertDesc(_, _, _)
\* insert x behind every element whose key is >= x's key; key names a field
InsertDesc(sorted, x, key) ==
  IF sorted = <<>> THEN <<x>>
  ELSE IF Head(sorted)[key] >= x[key]
       THEN <<Head(sorted)>> \o InsertDesc(Tail(sorted), x, key)
       ELSE <<x>> \o sorted

RECURSIVE SortDesc(_, _)
\* Array.prototype.sort((a, b) => b[key] - a[key]), which is stable
SortDesc(s, key) ==
  IF s = <<>> THEN <<>>
  ELSE InsertDesc(SortDesc(SubSeq(s, 1, Len(s) - 1), key), s[Len(s)], key)

\* downloadVideo: video-only formats with height >= 720
highResVideoFormats(formats) ==
  SelectSeq(filterFormats(formats, "videoonly"),
            LAMBDA f : f.height # 0 /\ f.height >= 720)

\* mutants of the two selections: the candidate filter compares wrongly
bestVideoFormatAnyContainer(formats) ==
  LET videoOnlyFormats == filterFormats(formats, "videoonly")
      cand == SortDesc(SelectSeq(videoOnlyFormats, LAMBDA f : f.height # 0), "height")
  IN  IF cand # <<>> THEN cand[1]
      ELSE IF videoOnlyFormats # <<>> THEN videoOnlyFormats[1] ELSE NoFormat

\* downloadAndMergeStreams: the best video-only format
bestVideoFormat(formats) ==
  LET videoOnlyFormats == filterFormats(formats, "videoonly")
      cand == SortDesc(SelectSeq(videoOnlyFormats,
                                 LAMBDA f : f.container = "mp4" /\ f.height # 0),
                       "height")
  IN  IF cand # <<>> THEN cand[1]
      ELSE IF videoOnlyFormats # <<>> THEN videoOnlyFormats[1] ELSE NoFormat

\* downloadAndMergeStreams: the best audio-only format
bestAudioFormat(formats) ==
  LET audioOnlyFormats == filterFormats(formats, "audioonly")
      cand == SortDesc(SelectSeq(audioOnlyFormats,
                                 LAMBDA f : f.container = "webm" \/ f.container = "m4a"),
                       "audioBitrate")
  IN  IF cand # <<>> THEN cand[1]
      ELSE IF audioOnlyFormats # <<>> THEN audioOnlyFormats[1] ELSE NoFormat

(* ------------------------------- state --------------------------------- *)
VARIABLES
  outputDir,    \* tmp/highlights with its file names spelled out, and who made each
  lookedUp,     \* the request hasCroppedFile was last called for
  returned,     \* the file that call found, or None
  body,         \* POST /api/download: the JSON body of the request
  status,       \* POST /api/download: how far the request got, or "400"
  options,      \* quality and resolution as destructured last
  command,      \* the fluent-ffmpeg command cropVideo is building
  croppedDir,   \* tmp/cropped: the directory the clear-cache route empties
  cleared,      \* POST /api/clear-cache: the clearType it answered success for
  elapsed,      \* progress handler: now - startTime, in seconds
  lastUpdate,   \* progress handler: lastUpdate - startTime, in seconds
  downloaded,   \* progress handler: downloadedBytes of the last event
  calls,        \* progress handler: the onProgress calls made so far
  catalog,      \* info.formats: what ytdl.getInfo returns for the source
  clock,        \* Date.now(), in hours
  ms,           \* the latest millisecond stamp Date.now() gave to a file name
  videosDir,    \* tmp/videos: the files of the source cache
  pc,           \* per task: where its handler stands
  quality,      \* per task: options.quality of its downloadVideo call
  maxRetries,   \* per task: the maxRetries argument
  attempt,      \* per task: the loop variable of downloadVideo
  filePath,     \* per task: stamp in `${videoId}_${Date.now()}.${format}`
  tempStamp,    \* per task: stamp of tempVideoPath / tempAudioPath
  lastError,    \* per task: lastError of downloadVideo
  requested,    \* per task: the streams the current attempt asked ytdl for
  merged,       \* per task: whether the current attempt spawned ffmpeg
  waits,        \* per task: the backoff delays awaited so far, in seconds
  dirBefore,    \* per task: the names in tmp/videos when the attempt began
  highlightsDir, \* tmp/highlights: the files of the segment cache
  pending,      \* the periodic sweeps whose timer has fired and that have not run yet
  readdirOrder, \* the order in which this platform's readdir lists a directory
  nreq,         \* POST /api/download requests received so far
  files,        \* per task: what readdirSync listed for the lookup under way, and when
  cand,         \* per task: the file `files.find` chose, while its stat is awaited
  videoFilePath, \* per task: videoFilePath of the route
  cropStamp,    \* per task: timestamp in cropVideo's outputFileName
  outcome,      \* per task: how the lookups of its request ended
  lastOk,       \* the segment file the last successful request served, until a sweep
  basis         \* per task: lastOk when its request arrived

dlVars == <<quality, maxRetries, attempt, filePath, tempStamp, lastError,
            requested, merged, waits, dirBefore>>
rtVars == <<highlightsDir, pending, readdirOrder, nreq, files, cand, videoFilePath,
            cropStamp, outcome, lastOk, basis>>
pgVars == <<elapsed, lastUpdate, downloaded, calls>>
crVars == <<body, status, options, command>>
ccVars == <<croppedDir, cleared>>
kyVars == <<outputDir, lookedUp, returned>>
unitVars == <<pgVars, crVars, ccVars, kyVars>>
vars == <<catalog, clock, ms, videosDir, pc, dlVars, rtVars, unitVars>>

None == <<>>

VideoId == "vidA"
Qualities == {"highest", "lowest", "highestvideo"}
NoError == [msg |-> "none", attempt |-> 0]

\* the names downloadVideo and downloadAndMergeStreams build
destName(t) == <<VideoId, "dest", filePath[t]>>
tempVideoName(stamp) == <<VideoId, "video", stamp>>
tempAudioName(stamp) == <<VideoId, "audio", stamp>>

Names(dir) == { f.name : f \in dir }
FileNamed(dir, name) == { f \in dir : f.name = name }

\* fs.createWriteStream(path): creates or truncates the file
createWriteStream(dir, name) ==
  (dir \ FileNamed(dir, name)) \cup { [name |-> name, mtime |-> clock, partial |-> TRUE] }

\* the write stream's 'finish': the last byte is on disk (an unlinked file stays unlinked)
finishWrite(dir, name) ==
  IF FileNamed(dir, name) = {} THEN dir
  ELSE (dir \ FileNamed(dir, name)) \cup
         { [name |-> name, mtime |-> clock, partial |-> FALSE] }

\* mutant: cleanupFile that removes nothing
cleanupFileNoop(dir, name) == dir

\* VideoDownloadService.cleanupFile: existsSync + unlinkSync
cleanupFile(dir, name) == dir \ FileNamed(dir, name)

InFlight(u) ==
  pc[u] \in {"getInfo", "combined", "dlVideo", "dlAudio", "merge", "backoff", "cropping"}

\* Date.now() for a file name: a later millisecond, or the very millisecond in which
\* another task that is still running took its stamp
Stamps(t, held) ==
  {ms + 1} \cup { ms : u \in { v \in Tasks \ {t} : InFlight(v) /\ held[v] = ms } }

\* mutant: the exponent counts attempts from 0
backoffDelayFromZero(n) == 2 ^ (n - 1)

\* Math.pow(2, attempt) * 1000 ms, in seconds
backoffDelay(n) == 2 ^ n

\* mutant: every failure is followed by a wait
mayRetryAlways(n, mr) == TRUE

\* downloadVideo's catch block: `if (attempt < maxRetries)`
mayRetry(n, mr) == n < mr

\* mutant: the catch block keeps the first error it saw
AttemptFailsKeepsFirst(t, msg, dir) ==
  /\ videosDir' = dir
  /\ lastError' = [lastError EXCEPT ![t] =
                     IF @ = NoError THEN [msg |-> msg, attempt |-> attempt[t]] ELSE @]
  /\ IF mayRetry(attempt[t], maxRetries[t])
     THEN /\ pc' = [pc EXCEPT ![t] = "backoff"]
          /\ waits' = [waits EXCEPT ![t] = Append(@, backoffDelay(attempt[t]))]
     ELSE /\ pc' = [pc EXCEPT ![t] = "rejected"]
          /\ waits' = waits

\* The catch block of the retry loop, and the loop's exit after the last attempt.
AttemptFails(t, msg, dir) ==
  /\ videosDir' = dir
  /\ lastError' = [lastError EXCEPT ![t] = [msg |-> msg, attempt |-> attempt[t]]]
  /\ IF mayRetry(attempt[t], maxRetries[t])
     THEN /\ pc' = [pc EXCEPT ![t] = "backoff"]
          /\ waits' = [waits EXCEPT ![t] = Append(@, backoffDelay(attempt[t]))]
     ELSE /\ pc' = [pc EXCEPT ![t] = "rejected"]
          /\ waits' = waits

\* downloadVideo(videoUrl, videoId, {quality: q}, mr) up to its first await of
\* ytdl.getInfo; with mr < 1 the loop body never runs and the final throw is reached
downloadVideo(t, q, mr) ==
  /\ pc[t] = "ensureTempDir"
  /\ \E stamp \in Stamps(t, filePath) :
       /\ filePath' = [filePath EXCEPT ![t] = stamp]
       /\ ms' = IF stamp > ms THEN stamp ELSE ms
  /\ quality' = [quality EXCEPT ![t] = q]
  /\ maxRetries' = [maxRetries EXCEPT ![t] = mr]
  /\ attempt' = [attempt EXCEPT ![t] = 1]
  /\ requested' = [requested EXCEPT ![t] = {}]
  /\ merged' = [merged EXCEPT ![t] = FALSE]
  /\ waits' = [waits EXCEPT ![t] = <<>>]
  /\ dirBefore' = [dirBefore EXCEPT ![t] = Names(videosDir)]
  /\ IF 1 <= mr
     THEN /\ pc' = [pc EXCEPT ![t] = "getInfo"]
          /\ lastError' = [lastError EXCEPT ![t] = NoError]
     ELSE /\ pc' = [pc EXCEPT ![t] = "rejected"]
          /\ lastError' = [lastError EXCEPT ![t] =
                             [msg |-> "Failed to download video after all retries",
                              attempt |-> 0]]
  /\ UNCHANGED <<unitVars, rtVars, catalog, clock, videosDir, tempStamp>>

\* ytdl.getInfo rejects (private, removed, region-blocked, live, or a network error)
getInfoRejects(t, msg) ==
  /\ pc[t] = "getInfo"
  /\ AttemptFails(t, msg, videosDir)
  /\ UNCHANGED <<unitVars, rtVars, catalog, clock, ms, quality, maxRetries, attempt, filePath,
                 tempStamp, requested, merged, dirBefore>>

\* streamOptions of the combined download (lines 157-165 and 189-195)
streamOptions(t) ==
  IF attempt[t] > 1
  THEN [filter |-> "videoandaudio", quality |-> "lowest", itag |-> 0]
  ELSE [filter |-> IF filterFormats(catalog, "videoandaudio") # <<>>
                   THEN "videoandaudio" ELSE "videoonly",
        quality |-> quality[t], itag |-> 0]

\* mutant: the separate-stream path is taken for every quality
takesSeparateStreamsAlways(t) == highResVideoFormats(catalog) # <<>>

\* `quality === 'highest'` and highResVideoFormats.length > 0 (lines 168-176)
takesSeparateStreams(t) ==
  quality[t] = "highest" /\ highResVideoFormats(catalog) # <<>>

\* the filter downloadStream gets: format.itag === best...Format.itag
itagRequest(f) == [filter |-> "itag", quality |-> "highest", itag |-> f.itag]

\* The .then callback of ytdl.getInfo (lines 138-285) up to its first await:
\* the format checks, then either downloadAndMergeStreams up to the await of the
\* video download (lines 391-432), or the combined stream is opened and piped.
getInfoResolves(t) ==
  /\ pc[t] = "getInfo"
  /\ IF filterFormats(catalog, "videoandaudio") = <<>>
        /\ filterFormats(catalog, "videoonly") = <<>>
     THEN /\ AttemptFails(t, "No suitable video formats available", videosDir)
          /\ UNCHANGED <<ms, tempStamp, requested, merged>>
     ELSE IF takesSeparateStreams(t)
     THEN \E stamp \in Stamps(t, tempStamp) :
            /\ tempStamp' = [tempStamp EXCEPT ![t] = stamp]
            /\ ms' = IF stamp > ms THEN stamp ELSE ms
            /\ merged' = merged
            /\ IF bestVideoFormat(catalog) = NoFormat
               THEN /\ AttemptFails(t, "No suitable video-only format found",
                          cleanupFile(cleanupFile(videosDir, tempVideoName(stamp)),
                                      tempAudioName(stamp)))
                    /\ requested' = requested
               ELSE IF bestAudioFormat(catalog) = NoFormat
               THEN /\ AttemptFails(t, "No suitable audio-only format found",
                          cleanupFile(cleanupFile(videosDir, tempVideoName(stamp)),
                                      tempAudioName(stamp)))
                    /\ requested' = requested
               ELSE /\ requested' = [requested EXCEPT ![t] =
                                       @ \cup {itagRequest(bestVideoFormat(catalog))}]
                    /\ videosDir' = createWriteStream(videosDir, tempVideoName(stamp))
                    /\ pc' = [pc EXCEPT ![t] = "dlVideo"]
                    /\ UNCHANGED <<lastError, waits>>
     ELSE /\ requested' = [requested EXCEPT ![t] = @ \cup {streamOptions(t)}]
          /\ videosDir' = createWriteStream(videosDir, destName(t))
          /\ pc' = [pc EXCEPT ![t] = "combined"]
          /\ UNCHANGED <<ms, tempStamp, merged, lastError, waits>>
  /\ UNCHANGED <<unitVars, rtVars, catalog, clock, quality, maxRetries, attempt, filePath, dirBefore>>

\* whether ytdl finds a format for the options it was given (else it emits 'error')
formatAvailable(opts) ==
  IF opts.filter = "itag"
  THEN \E i \in 1..Len(catalog) : catalog[i].itag = opts.itag
  ELSE filterFormats(catalog, opts.filter) # <<>>

StreamFailures == {"Download failed", "File write failed", "Download timeout"}

\* The combined download fails: stream 'error' (255-259), writeStream 'error'
\* (261-265) or the 15 minute timeout (273-279); each calls cleanupFile(filePath)
combinedFails(t, msg) ==
  /\ pc[t] = "combined"
  /\ AttemptFails(t, msg, cleanupFile(videosDir, destName(t)))
  /\ UNCHANGED <<unitVars, rtVars, catalog, clock, ms, quality, maxRetries, attempt, filePath,
                 tempStamp, requested, merged, dirBefore>>

\* writeStream 'finish' of the combined download (267-270): resolve(filePath)
combinedFinishes(t) ==
  /\ pc[t] = "combined"
  /\ formatAvailable(streamOptions(t))
  /\ videosDir' = finishWrite(videosDir, destName(t))
  /\ pc' = [pc EXCEPT ![t] = "resolved"]
  /\ UNCHANGED <<unitVars, rtVars, catalog, clock, ms, dlVars>>

\* mutant: the finally block removes the temp video file only
cleanupTempsVideoOnly(dir, stamp) == cleanupFile(dir, tempVideoName(stamp))

\* the finally block of downloadAndMergeStreams (450-454)
cleanupTemps(dir, stamp) ==
  cleanupFile(cleanupFile(dir, tempVideoName(stamp)), tempAudioName(stamp))

SeparateFailures == {"stream error", "write error", "Stream download timeout"}

\* downloadStream of the video-only stream fails (471-481, 489-494): its own
\* cleanupFile(outputPath), then the catch and finally of downloadAndMergeStreams
videoStreamFails(t, msg) ==
  /\ pc[t] = "dlVideo"
  /\ AttemptFails(t, msg,
       cleanupTemps(cleanupFile(videosDir, tempVideoName(tempStamp[t])), tempStamp[t]))
  /\ UNCHANGED <<unitVars, rtVars, catalog, clock, ms, quality, maxRetries, attempt, filePath,
                 tempStamp, requested, merged, dirBefore>>

\* mutant: the merge is spawned as soon as the video-only stream has resolved
videoStreamFinishesThenMerges(t) ==
  /\ pc[t] = "dlVideo"
  /\ videosDir' = finishWrite(videosDir, tempVideoName(tempStamp[t]))
  /\ merged' = [merged EXCEPT ![t] = TRUE]
  /\ pc' = [pc EXCEPT ![t] = "merge"]
  /\ UNCHANGED <<unitVars, rtVars, catalog, clock, ms, quality, maxRetries, attempt, filePath,
                 tempStamp, lastError, requested, waits, dirBefore>>

\* downloadStream of the video-only stream resolves (483-486); downloadAndMergeStreams
\* goes on to the audio download (434-438) and awaits it
videoStreamFinishes(t) ==
  /\ pc[t] = "dlVideo"
  /\ requested' = [requested EXCEPT ![t] = @ \cup {itagRequest(bestAudioFormat(catalog))}]
  /\ videosDir' = createWriteStream(finishWrite(videosDir, tempVideoName(tempStamp[t])),
                                    tempAudioName(tempStamp[t]))
  /\ pc' = [pc EXCEPT ![t] = "dlAudio"]
  /\ UNCHANGED <<unitVars, rtVars, catalog, clock, ms, quality, maxRetries, attempt, filePath,
                 tempStamp, lastError, merged, waits, dirBefore>>

\* downloadStream of the audio-only stream fails
audioStreamFails(t, msg) ==
  /\ pc[t] = "dlAudio"
  /\ AttemptFails(t, msg,
       cleanupTemps(cleanupFile(videosDir, tempAudioName(tempStamp[t])), tempStamp[t]))
  /\ UNCHANGED <<unitVars, rtVars, catalog, clock, ms, quality, maxRetries, attempt, filePath,
                 tempStamp, requested, merged, dirBefore>>

\* downloadStream of the audio-only stream resolves; mergeStreamsWithFFmpeg spawns
\* ffmpeg (505-524)
audioStreamFinishes(t) ==
  /\ pc[t] = "dlAudio"
  /\ videosDir' = finishWrite(videosDir, tempAudioName(tempStamp[t]))
  /\ merged' = [merged EXCEPT ![t] = TRUE]
  /\ pc' = [pc EXCEPT ![t] = "merge"]
  /\ UNCHANGED <<unitVars, rtVars, catalog, clock, ms, quality, maxRetries, attempt, filePath,
                 tempStamp, lastError, requested, waits, dirBefore>>

\* what `ffmpeg ... -y outputPath` leaves at outputPath: nothing new when it stops
\* before opening its output, else a file that is whole only after exit code 0
ffmpegOutput(dir, name, wrote, whole) ==
  IF wrote
  THEN (dir \ FileNamed(dir, name)) \cup
         { [name |-> name, mtime |-> clock, partial |-> ~whole] }
  ELSE dir

\* ffmpeg 'error' (537-540): the process could not be spawned
mergeSpawnFails(t) ==
  /\ pc[t] = "merge"
  /\ AttemptFails(t, "FFmpeg spawn failed", cleanupTemps(videosDir, tempStamp[t]))
  /\ UNCHANGED <<unitVars, rtVars, catalog, clock, ms, quality, maxRetries, attempt, filePath,
                 tempStamp, requested, merged, dirBefore>>

MergeFailures == {"FFmpeg merge failed with code", "FFmpeg merge timeout"}

\* ffmpeg closes with a nonzero code (546-549) or is killed by the 15 minute
\* timeout (553-556); the promise rejects, downloadAndMergeStreams rethrows and its
\* finally removes the two temp files.  Nothing removes outputPath.
mergeFails(t, msg, wrote) ==
  /\ pc[t] = "merge"
  /\ AttemptFails(t, msg,
       cleanupTemps(ffmpegOutput(videosDir, destName(t), wrote, FALSE), tempStamp[t]))
  /\ UNCHANGED <<unitVars, rtVars, catalog, clock, ms, quality, maxRetries, attempt, filePath,
                 tempStamp, requested, merged, dirBefore>>

\* ffmpeg closes with code 0 (542-545): downloadAndMergeStreams returns outputPath
\* after its finally, and the .then callback resolves with it (180-182)
mergeSucceeds(t) ==
  /\ pc[t] = "merge"
  /\ videosDir' = cleanupTemps(ffmpegOutput(videosDir, destName(t), TRUE, TRUE),
                               tempStamp[t])
  /\ pc' = [pc EXCEPT ![t] = "resolved"]
  /\ UNCHANGED <<unitVars, rtVars, catalog, clock, ms, dlVars>>

\* the backoff timer fires (301): attempt++ and the next turn of the loop, up to
\* its await of ytdl.getInfo
backoffElapses(t) ==
  /\ pc[t] = "backoff"
  /\ attempt' = [attempt EXCEPT ![t] = @ + 1]
  /\ requested' = [requested EXCEPT ![t] = {}]
  /\ merged' = [merged EXCEPT ![t] = FALSE]
  /\ dirBefore' = [dirBefore EXCEPT ![t] = Names(videosDir)]
  /\ pc' = [pc EXCEPT ![t] = "getInfo"]
  /\ UNCHANGED <<unitVars, rtVars, catalog, clock, ms, videosDir, quality, maxRetries, filePath,
                 tempStamp, lastError, waits>>

GetInfoFailures == {"restricted", "network"}

\* every step of one downloadVideo call of task t after the call itself
downloadSteps(t) ==
  \/ \E msg \in GetInfoFailures : getInfoRejects(t, msg)
  \/ getInfoResolves(t)
  \/ \E msg \in StreamFailures : combinedFails(t, msg)
  \/ combinedFinishes(t)
  \/ \E msg \in SeparateFailures : videoStreamFails(t, msg)
  \/ videoStreamFinishes(t)
  \/ \E msg \in SeparateFailures : audioStreamFails(t, msg)
  \/ audioStreamFinishes(t)
  \/ mergeSpawnFails(t)
  \/ \E msg \in MergeFailures, wrote \in BOOLEAN : mergeFails(t, msg, wrote)
  \/ mergeSucceeds(t)
  \/ backoffElapses(t)

(* ------------- one downloadVideo call, alone in the process ------------ *)
\* the handlers modelled on their own have not run
InitProgressIdle ==
  /\ elapsed = 0
  /\ lastUpdate = 0
  /\ downloaded = 0
  /\ calls = <<>>

InitCropIdle ==
  /\ body = None
  /\ status = "idle"
  /\ options = None
  /\ command = None

InitClearIdle ==
  /\ croppedDir = {}
  /\ cleared = "none"

InitKeysIdle ==
  /\ outputDir = {}
  /\ lookedUp = None
  /\ returned = None

InitUnitsIdle == InitProgressIdle /\ InitCropIdle /\ InitClearIdle /\ InitKeysIdle

InitProcess ==
  /\ clock = 0
  /\ ms = 0
  /\ quality = [t \in Tasks |-> "highest"]
  /\ maxRetries = [t \in Tasks |-> 3]
  /\ attempt = [t \in Tasks |-> 0]
  /\ filePath = [t \in Tasks |-> 0]
  /\ tempStamp = [t \in Tasks |-> 0]
  /\ lastError = [t \in Tasks |-> NoError]
  /\ requested = [t \in Tasks |-> {}]
  /\ merged = [t \in Tasks |-> FALSE]
  /\ waits = [t \in Tasks |-> <<>>]
  /\ dirBefore = [t \in Tasks |-> {}]
  /\ highlightsDir = {}
  /\ pending = {}
  /\ nreq = 0
  /\ files = [t \in Tasks |-> [names |-> {}, at |-> 0]]
  /\ cand = [t \in Tasks |-> None]
  /\ videoFilePath = [t \in Tasks |-> None]
  /\ cropStamp = [t \in Tasks |-> 0]
  /\ outcome = [t \in Tasks |-> "none"]
  /\ lastOk = None
  /\ basis = [t \in Tasks |-> None]

InitCommon == InitUnitsIdle /\ InitProcess

\* a file an earlier, finished request left in tmp/videos
oldSourceFile == [name |-> <<VideoId, "dest", 0>>, mtime |-> 0, partial |-> FALSE]

InitDownload ==
  /\ InitCommon
  /\ pc = [t \in Tasks |-> IF t = 1 THEN "ensureTempDir" ELSE "idle"]
  /\ readdirOrder = "asc"
  /\ catalog \in Catalogs
  /\ videosDir = {oldSourceFile}

NextDownload ==
  \/ \E q \in Qualities, mr \in 0..MaxRetriesBound : downloadVideo(1, q, mr)
  \/ downloadSteps(1)

SpecDownload == InitDownload /\ [][NextDownload]_vars

\* The timers the code sets do fire: the 15 minute timeout of the combined download
\* (273-279), the 10 minute timeout of each separate stream (489-494), the 15 minute
\* timeout of the merge (553-556) and the backoff (301). Nothing makes the network
\* or ffmpeg answer.
TimersFire ==
  /\ WF_vars(combinedFails(1, "Download timeout"))
  /\ WF_vars(videoStreamFails(1, "Stream download timeout"))
  /\ WF_vars(audioStreamFails(1, "Stream download timeout"))
  /\ WF_vars(\E wrote \in BOOLEAN : mergeFails(1, "FFmpeg merge timeout", wrote))
  /\ WF_vars(backoffElapses(1))

SpecDownloadTimed == InitDownload /\ [][NextDownload]_vars /\ TimersFire

\* every catalog fetch, stream, ffmpeg process and backoff timer ends
OperationsEnd == WF_vars(downloadSteps(1))
SpecDownloadFair == InitDownload /\ [][NextDownload]_vars /\ OperationsEnd

(* ------------------ the caches, the sweeps and the route --------------- *)
videoMaxFileAge == 2       \* VideoDownloadService.maxFileAge, hours
cropMaxFileAge == 4        \* VideoCroppingService.maxFileAge, hours
videoSweepPeriod == 1      \* setInterval of video-download, hours
cropSweepPeriod == 2       \* setInterval of video-cropping, hours
defaultMaxRetries == 3     \* downloadVideo's default maxRetries

HighlightId == "h1"
HighlightTitle == "title"

\* `${videoId}_${highlight.id}_${sanitizedTitle}_${timestamp}.${outputFormat}`
cropName(stamp) == <<VideoId, HighlightId, HighlightTitle, stamp>>

\* file.startsWith(videoId): video ids are 11 characters long, and every name in
\* tmp/videos begins with one, followed by '_'
startsWithVideoId(name) == name[1] = VideoId

\* file.includes(`${videoId}_${highlightId}_`)
includesKey(name) == name[1] = VideoId /\ name[2] = HighlightId /\ Len(name) > 2

\* the position readdir gives a name: by its stamp, then by its kind
kindRank(name) ==
  IF Len(name) # 3 THEN 0
  ELSE IF name[2] = "dest" THEN 0 ELSE IF name[2] = "video" THEN 1 ELSE 2
rank(name) == 3 * name[Len(name)] + kindRank(name)

\* files.find(pred): the first name readdirSync lists that satisfies pred
findFirst(matching) ==
  IF matching = {} THEN None
  ELSE LET n == CHOOSE x \in matching : \A y \in matching :
                  IF readdirOrder = "asc" THEN rank(x) <= rank(y) ELSE rank(x) >= rank(y)
       IN  n

\* mutant: the age test lets a file of age exactly maxFileAge pass
isFreshInclusive(mtime, maxFileAge) == clock - mtime <= maxFileAge

\* Date.now() - stats.mtime.getTime() < this.maxFileAge
isFresh(mtime, maxFileAge) == clock - mtime < maxFileAge

\* fs.readdirSync(dir), with the hour it was called in
NoListing == [names |-> {}, at |-> 0]
readdirSync(dir) == [names |-> Names(dir), at |-> clock]

\* the route's state once its response is sent: locals are gone
Respond(t, okName) ==
  /\ pc' = [pc EXCEPT ![t] = "idle"]
  /\ lastOk' = IF okName # None THEN okName ELSE lastOk
  /\ basis' = [basis EXCEPT ![t] = None]
  /\ cand' = [cand EXCEPT ![t] = None]
  /\ videoFilePath' = [videoFilePath EXCEPT ![t] = None]
  /\ outcome' = [outcome EXCEPT ![t] = "none"]
  /\ cropStamp' = [cropStamp EXCEPT ![t] = 0]
  /\ files' = [files EXCEPT ![t] = NoListing]

\* hasVideoFile up to its await of stat (314-319); when no name matches it returns
\* null and the route calls downloadVideo, which awaits ensureTempDir
GoHasVideoFile(t, how) ==
  LET c == findFirst({ n \in Names(videosDir) : startsWithVideoId(n) })
  IN  /\ cand' = [cand EXCEPT ![t] = c]
      /\ files' = [files EXCEPT ![t] = IF c = None THEN NoListing
                                       ELSE readdirSync(videosDir)]
      /\ outcome' = [outcome EXCEPT ![t] = how]
      /\ pc' = [pc EXCEPT ![t] = IF c = None THEN "ensureTempDir" ELSE "statVideo"]

\* POST /api/download up to the first await that suspends it: the body is valid,
\* hasCroppedFile lists tmp/highlights and finds a name (266-273), or finds none
\* and hasVideoFile starts
POST(t) ==
  /\ pc[t] = "idle"
  /\ nreq < MaxRequests
  /\ nreq' = nreq + 1
  /\ basis' = [basis EXCEPT ![t] = lastOk]
  /\ LET c == findFirst({ n \in Names(highlightsDir) : includesKey(n) })
     IN  IF c # None
         THEN /\ cand' = [cand EXCEPT ![t] = c]
              /\ files' = [files EXCEPT ![t] = readdirSync(highlightsDir)]
              /\ pc' = [pc EXCEPT ![t] = "statCropped"]
              /\ outcome' = outcome
         ELSE GoHasVideoFile(t, "none")
  /\ UNCHANGED <<unitVars, catalog, clock, ms, videosDir, dlVars, highlightsDir, pending,
                 readdirOrder, videoFilePath, cropStamp, lastOk>>

\* hasCroppedFile after its stat (273-287), and the route after it (44-52): a fresh
\* file is served at once; an expired one is unlinked and hasVideoFile starts
croppedStat(t) ==
  /\ pc[t] = "statCropped"
  /\ LET fs == FileNamed(highlightsDir, cand[t])
     IN  IF fs = {}
         THEN /\ GoHasVideoFile(t, "cropGone")
              /\ UNCHANGED <<highlightsDir, lastOk, basis, videoFilePath, cropStamp>>
         ELSE IF \A f \in fs : isFresh(f.mtime, cropMaxFileAge)
         THEN /\ Respond(t, cand[t])
              /\ UNCHANGED highlightsDir
         ELSE /\ highlightsDir' = cleanupFile(highlightsDir, cand[t])
              /\ GoHasVideoFile(t, "cropExpired")
              /\ UNCHANGED <<lastOk, basis, videoFilePath, cropStamp>>
  /\ UNCHANGED <<unitVars, catalog, clock, ms, videosDir, dlVars, pending, readdirOrder, nreq>>

\* hasVideoFile after its stat (319-333), and the route after it (54, 92-99): a
\* fresh file becomes videoFilePath and cropVideo is called (it awaits
\* ensureOutputDir); an expired one is unlinked and downloadVideo is called
videoStat(t) ==
  /\ pc[t] = "statVideo"
  /\ LET fs == FileNamed(videosDir, cand[t])
     IN  IF fs = {}
         THEN /\ pc' = [pc EXCEPT ![t] = "ensureTempDir"]
              /\ outcome' = [outcome EXCEPT ![t] = "videoGone"]
              /\ UNCHANGED <<videosDir, videoFilePath>>
         ELSE IF \A f \in fs : isFresh(f.mtime, videoMaxFileAge)
         THEN /\ pc' = [pc EXCEPT ![t] = "ensureOutputDir"]
              /\ videoFilePath' = [videoFilePath EXCEPT ![t] = cand[t]]
              /\ outcome' = [outcome EXCEPT ![t] = "videoHit"]
              /\ UNCHANGED videosDir
         ELSE /\ videosDir' = cleanupFile(videosDir, cand[t])
              /\ pc' = [pc EXCEPT ![t] = "ensureTempDir"]
              /\ outcome' = [outcome EXCEPT ![t] = "videoExpired"]
              /\ UNCHANGED videoFilePath
  /\ cand' = [cand EXCEPT ![t] = None]
  /\ files' = [files EXCEPT ![t] = NoListing]
  /\ UNCHANGED <<unitVars, catalog, clock, ms, dlVars, highlightsDir, pending, readdirOrder,
                 nreq, cropStamp, lastOk, basis>>

\* downloadVideo has returned or thrown: its locals are gone
ForgetDownload(t) ==
  /\ quality' = [quality EXCEPT ![t] = "highest"]
  /\ maxRetries' = [maxRetries EXCEPT ![t] = defaultMaxRetries]
  /\ attempt' = [attempt EXCEPT ![t] = 0]
  /\ filePath' = [filePath EXCEPT ![t] = 0]
  /\ tempStamp' = [tempStamp EXCEPT ![t] = 0]
  /\ lastError' = [lastError EXCEPT ![t] = NoError]
  /\ requested' = [requested EXCEPT ![t] = {}]
  /\ merged' = [merged EXCEPT ![t] = FALSE]
  /\ waits' = [waits EXCEPT ![t] = <<>>]
  /\ dirBefore' = [dirBefore EXCEPT ![t] = {}]

\* downloadVideo returned to the route (59-63): cropVideo is called with its path
downloadResolved(t) ==
  /\ pc[t] = "resolved"
  /\ videoFilePath' = [videoFilePath EXCEPT ![t] = destName(t)]
  /\ pc' = [pc EXCEPT ![t] = "ensureOutputDir"]
  /\ ForgetDownload(t)
  /\ UNCHANGED <<unitVars, catalog, clock, ms, videosDir, highlightsDir, pending,
                 readdirOrder, nreq, files, cand, cropStamp, outcome, lastOk, basis>>

\* cropVideo from the end of ensureOutputDir to command.run() (59-227): the output
\* name is built and ffmpeg starts; it opens its output only if it can read its input
cropVideo(t) ==
  /\ pc[t] = "ensureOutputDir"
  /\ \E stamp \in Stamps(t, cropStamp) :
       /\ cropStamp' = [cropStamp EXCEPT ![t] = stamp]
       /\ ms' = IF stamp > ms THEN stamp ELSE ms
       /\ IF FileNamed(videosDir, videoFilePath[t]) # {}
          THEN /\ highlightsDir' = createWriteStream(highlightsDir, cropName(stamp))
               /\ pc' = [pc EXCEPT ![t] = "cropping"]
          ELSE /\ highlightsDir' = highlightsDir
               /\ pc' = [pc EXCEPT ![t] = "cropNoInput"]
  /\ UNCHANGED <<unitVars, catalog, clock, videosDir, dlVars, pending, readdirOrder, nreq,
                 files, cand, videoFilePath, outcome, lastOk, basis>>

\* ffmpeg 'error' (222-226): cleanupFile(outputPath), reject; the route answers 500
cropFails(t) ==
  /\ pc[t] \in {"cropping", "cropNoInput"}
  /\ highlightsDir' = cleanupFile(highlightsDir, cropName(cropStamp[t]))
  /\ Respond(t, None)
  /\ UNCHANGED <<unitVars, catalog, clock, ms, videosDir, dlVars, pending, readdirOrder, nreq>>

\* ffmpeg 'end' (207-209): the output is whole, and its stat is awaited
cropEnds(t) ==
  /\ pc[t] = "cropping"
  /\ highlightsDir' = finishWrite(highlightsDir, cropName(cropStamp[t]))
  /\ pc' = [pc EXCEPT ![t] = "cropStat"]
  /\ UNCHANGED <<unitVars, catalog, clock, ms, videosDir, dlVars, pending, readdirOrder, nreq,
                 files, cand, videoFilePath, cropStamp, outcome, lastOk, basis>>

\* the stat of the output returns (209-220): cropVideo resolves and the route serves
\* the file (112-115, 141-167); or the stat fails, because the file is gone or on an
\* I/O error, cropVideo rejects with nothing cleaned up, and the route answers 500
cropStatReturns(t, statOk) ==
  /\ pc[t] = "cropStat"
  /\ IF statOk /\ FileNamed(highlightsDir, cropName(cropStamp[t])) # {}
     THEN Respond(t, cropName(cropStamp[t]))
     ELSE Respond(t, None)
  /\ UNCHANGED <<unitVars, catalog, clock, ms, videosDir, dlVars, highlightsDir, pending,
                 readdirOrder, nreq>>

\* what cleanupOldFiles leaves: Date.now() - mtime > maxFileAge is unlinked
swept(dir, maxFileAge) == { f \in dir : ~(clock - f.mtime > maxFileAge) }

\* videoDownloadService.cleanupOldFiles(), run by its hourly timer (591-596)
cleanupOldVideos ==
  /\ "videos" \in pending
  /\ pending' = pending \ {"videos"}
  /\ videosDir' = swept(videosDir, videoMaxFileAge)
  /\ lastOk' = None
  /\ basis' = [t \in Tasks |-> None]
  /\ UNCHANGED <<unitVars, catalog, clock, ms, pc, dlVars, highlightsDir, readdirOrder, nreq,
                 files, cand, videoFilePath, cropStamp, outcome>>

\* videoCroppingService.cleanupOldFiles(), run by its two-hourly timer (399-404)
cleanupOldHighlights ==
  /\ "highlights" \in pending
  /\ pending' = pending \ {"highlights"}
  /\ highlightsDir' = swept(highlightsDir, cropMaxFileAge)
  /\ lastOk' = None
  /\ basis' = [t \in Tasks |-> None]
  /\ UNCHANGED <<unitVars, catalog, clock, ms, pc, dlVars, videosDir, readdirOrder, nreq,
                 files, cand, videoFilePath, cropStamp, outcome>>

\* the files a stream or an ffmpeg process of a running request is writing to
BeingWritten ==
  { destName(t) : t \in { u \in Tasks : pc[u] \in {"combined", "merge"} } }
    \cup { tempVideoName(tempStamp[t]) : t \in { u \in Tasks : pc[u] = "dlVideo" } }
    \cup { tempAudioName(tempStamp[t]) : t \in { u \in Tasks : pc[u] = "dlAudio" } }
    \cup { cropName(cropStamp[t]) : t \in { u \in Tasks : pc[u] = "cropping" } }

\* every write sets the mtime: a file that is being written is as young as the hour
touch(dir, now) ==
  { IF f.name \in BeingWritten THEN [f EXCEPT !.mtime = now] ELSE f : f \in dir }

\* an hour passes; the interval timers that are due fire
Tick ==
  /\ clock < MaxClock
  /\ pending = {}
  /\ clock' = clock + 1
  /\ videosDir' = touch(videosDir, clock + 1)
  /\ highlightsDir' = touch(highlightsDir, clock + 1)
  /\ pending' = { ns \in {"videos", "highlights"} :
                    (clock + 1) % (IF ns = "videos" THEN videoSweepPeriod
                                   ELSE cropSweepPeriod) = 0 }
  /\ UNCHANGED <<unitVars, catalog, ms, pc, dlVars, readdirOrder,
                 nreq, files, cand, videoFilePath, cropStamp, outcome, lastOk, basis>>

\* the catalog the route is run on: one combined format, so that `highest` takes
\* the single-stream download
RouteCatalogs == { <<Fmt(18, "videoandaudio", "mp4", 360, 96)>> }

InitRoute ==
  /\ InitCommon
  /\ pc = [t \in Tasks |-> "idle"]
  /\ catalog \in RouteCatalogs
  /\ videosDir = {}
  /\ readdirOrder \in {"asc", "desc"}

\* Timer callbacks that are due run before the requests go on. The network is up
\* while the route is exercised: a failing download is SpecDownload's subject.
NextRoute ==
  \/ \E t \in Tasks : pending = {} /\ POST(t)
  \/ \E t \in Tasks : pending = {} /\ croppedStat(t)
  \/ \E t \in Tasks : pending = {} /\ videoStat(t)
  \/ \E t \in Tasks : pending = {} /\ downloadVideo(t, "highest", defaultMaxRetries)
  \/ \E t \in Tasks : pending = {} /\ getInfoResolves(t)
  \/ \E t \in Tasks : pending = {} /\ combinedFinishes(t)
  \/ \E t \in Tasks : pending = {} /\ downloadResolved(t)
  \/ \E t \in Tasks : pending = {} /\ cropVideo(t)
  \/ \E t \in Tasks : pending = {} /\ cropFails(t)
  \/ \E t \in Tasks : pending = {} /\ cropEnds(t)
  \/ \E t \in Tasks, statOk \in BOOLEAN : pending = {} /\ cropStatReturns(t, statOk)
  \/ cleanupOldVideos
  \/ cleanupOldHighlights
  \/ Tick

SpecRoute == InitRoute /\ [][NextRoute]_vars

(* --------------- cleanupOldFiles, one awaited stat at a time ------------ *)
\* `swept` above is what the loop of cleanupOldFiles leaves when nothing else touches
\* the directory while it runs, which is how SpecRoute schedules it. Here the loop
\* is taken step by step, next to a download that may fail and unlink its file.

\* Date.now() - stats.mtime.getTime() > this.maxFileAge
isOld(f, maxFileAge) == clock - f.mtime > maxFileAge

\* the next turn of `for (const file of files)`, up to its await of stat; after
\* the last file the function returns
sweepNext(t, remaining) ==
  /\ files' = [files EXCEPT ![t] = [names |-> remaining, at |-> clock]]
  /\ cand' = [cand EXCEPT ![t] = findFirst(remaining)]
  /\ pc' = [pc EXCEPT ![t] = IF remaining = {} THEN "idle" ELSE "sweepStat"]

\* videoDownloadService.cleanupOldFiles() up to its first await (355-359)
sweepStarts(t) ==
  /\ pc[t] = "sweepStart"
  /\ sweepNext(t, Names(videosDir))
  /\ UNCHANGED <<unitVars, catalog, clock, ms, videosDir, dlVars, highlightsDir, pending,
                 readdirOrder, nreq, videoFilePath, cropStamp, outcome, lastOk, basis>>

\* the awaited stat returns (359-363): an old file is unlinked and the loop goes on;
\* a stat that throws, its file being gone, ends the loop in the catch (365-367)
sweepStat(t) ==
  /\ pc[t] = "sweepStat"
  /\ IF FileNamed(videosDir, cand[t]) = {}
     THEN /\ sweepNext(t, {})
          /\ UNCHANGED videosDir
     ELSE /\ videosDir' = IF \E f \in FileNamed(videosDir, cand[t]) : isOld(f, videoMaxFileAge)
                          THEN cleanupFile(videosDir, cand[t])
                          ELSE videosDir
          /\ sweepNext(t, files[t].names \ {cand[t]})
  /\ UNCHANGED <<unitVars, catalog, clock, ms, dlVars, highlightsDir, pending,
                 readdirOrder, nreq, videoFilePath, cropStamp, outcome, lastOk, basis>>

MaxOldFiles == 2       \* files of earlier requests in tmp/videos when the sweep starts
SweepHour == 3         \* the hour at which the sweep runs

\* what earlier requests may have left: whole files, never older than the last
\* sweep let them become
OldSourceFiles ==
  { [name |-> <<VideoId, "dest", k>>, mtime |-> m, partial |-> FALSE] :
      k \in 1..MaxOldFiles, m \in 0..SweepHour }
OldDirs ==
  { d \in SUBSET OldSourceFiles : \A f, g \in d : f.name = g.name => f = g }

\* the hourly timer has fired (task 2 runs the sweep) while the request of task 1,
\* on its first attempt, is in its combined download
InitSweep ==
  /\ InitUnitsIdle
  /\ clock = SweepHour
  /\ ms = MaxOldFiles + 1
  /\ catalog \in RouteCatalogs
  /\ readdirOrder \in {"asc", "desc"}
  /\ \E d \in OldDirs :
       /\ videosDir = d \cup { [name |-> <<VideoId, "dest", MaxOldFiles + 1>>,
                                mtime |-> SweepHour, partial |-> TRUE] }
       /\ dirBefore = [t \in Tasks |-> IF t = 1 THEN Names(d) ELSE {}]
  /\ pc = [t \in Tasks |-> IF t = 1 THEN "combined" ELSE "sweepStart"]
  /\ quality = [t \in Tasks |-> "highest"]
  /\ maxRetries = [t \in Tasks |-> defaultMaxRetries]
  /\ attempt = [t \in Tasks |-> IF t = 1 THEN 1 ELSE 0]
  /\ filePath = [t \in Tasks |-> IF t = 1 THEN MaxOldFiles + 1 ELSE 0]
  /\ tempStamp = [t \in Tasks |-> 0]
  /\ lastError = [t \in Tasks |-> NoError]
  /\ requested = [t \in Tasks |->
                    IF t = 1 THEN {[filter |-> "videoandaudio", quality |-> "highest",
                                    itag |-> 0]}
                    ELSE {}]
  /\ merged = [t \in Tasks |-> FALSE]
  /\ waits = [t \in Tasks |-> <<>>]
  /\ highlightsDir = {}
  /\ pending = {}
  /\ nreq = 1
  /\ files = [t \in Tasks |-> NoListing]
  /\ cand = [t \in Tasks |-> None]
  /\ videoFilePath = [t \in Tasks |-> None]
  /\ cropStamp = [t \in Tasks |-> 0]
  /\ outcome = [t \in Tasks |-> "none"]
  /\ lastOk = None
  /\ basis = [t \in Tasks |-> None]

NextSweep ==
  \/ sweepStarts(2)
  \/ sweepStat(2)
  \/ combinedFails(1, "Download failed")
  \/ combinedFinishes(1)

SpecSweep == InitSweep /\ [][NextSweep]_vars

(* ------------- the 'progress' handler of the combined download --------- *)
TotalBytes == 4        \* totalBytes of the stream, in chunks of the smallest size
MaxSeconds == 6        \* longest download followed, in seconds
MaxGap == 2            \* longest time between two 'progress' events, in seconds

\* stream.on('progress', ...) with options.onProgress given (206-251): time has gone
\* on by dt since the last event and downloadedBytes has grown by chunkLength;
\* onProgress is called, and lastUpdate moves when the log line is written
progress(chunkLength, dt) ==
  /\ downloaded < TotalBytes
  /\ downloaded + chunkLength <= TotalBytes
  /\ elapsed + dt <= MaxSeconds
  /\ elapsed' = elapsed + dt
  /\ downloaded' = downloaded + chunkLength
  /\ calls' = Append(calls, [at |-> elapsed + dt,
                             percentage |-> ((downloaded + chunkLength) * 100) \div TotalBytes])
  /\ lastUpdate' =
       IF (elapsed + dt) - lastUpdate >= 2
          \/ ((downloaded + chunkLength) * 100) \div TotalBytes >= 100
       THEN elapsed + dt
       ELSE lastUpdate
  /\ UNCHANGED <<crVars, ccVars, kyVars, catalog, clock, ms, videosDir, pc, dlVars, rtVars>>

\* the stream of a combined download has just been created (198-204)
InitProgress ==
  /\ InitCommon
  /\ pc = [t \in Tasks |-> IF t = 1 THEN "combined" ELSE "idle"]
  /\ catalog \in RouteCatalogs
  /\ videosDir = {}
  /\ readdirOrder = "asc"

NextProgress == \E chunkLength \in 1..TotalBytes, dt \in 0..MaxGap : progress(chunkLength, dt)

SpecProgress == InitProgress /\ [][NextProgress]_vars

(* ---------- POST /api/download: validation, and cropVideo's command ----- *)
MaxSecond == 2         \* largest startSeconds / endSeconds of a request
Undefined == "undefined"
QualityTiers == {"lossless", "youtube", "high", "medium", "low"}
ResolutionTiers == {"original", "1080p", "720p", "480p", "360p"}

\* a highlight of a request body: each of id, startSeconds, endSeconds is there or not
Highlights ==
  { i @@ s @@ e :
      i \in {None, "id" :> HighlightId},
      s \in {None} \cup { "startSeconds" :> n : n \in 0..MaxSecond },
      e \in {None} \cup { "endSeconds" :> n : n \in 0..MaxSecond } }

\* the bodies that pass the checks of youtubeUrl and of highlight being there (16-30)
Bodies ==
  [highlight : Highlights,
   quality : QualityTiers \cup {Undefined},
   resolution : ResolutionTiers \cup {Undefined}]

\* !highlight[k] for a number: the field is missing or 0
falsyNumber(h, k) == k \notin DOMAIN h \/ h[k] = 0
\* !highlight.id for a string: the field is missing or ''
falsyString(h, k) == k \notin DOMAIN h \/ h[k] = ""

\* `const { x = d } = ...`: the default of a destructuring
orDefault(v, d) == IF v = Undefined THEN d ELSE v

\* POST from request.json() to the end of the highlight validation (10-38)
validateHighlight ==
  /\ status = "received"
  /\ options' = [quality |-> orDefault(body.quality, "lossless"),
                 resolution |-> orDefault(body.resolution, "original")]
  /\ status' = IF falsyString(body.highlight, "id")
                  \/ falsyNumber(body.highlight, "startSeconds")
                  \/ falsyNumber(body.highlight, "endSeconds")
               THEN "400"
               ELSE "accepted"
  /\ UNCHANGED <<body, command, pgVars, ccVars, kyVars, catalog, clock, ms, videosDir, pc,
                 dlVars, rtVars>>

\* ffmpeg(inputPath).seekInput(startTime).duration(duration).output(outputPath) (65-80)
ffmpegCommand(h) ==
  [seekInput |-> h["startSeconds"],
   duration |-> h["endSeconds"] - h["startSeconds"],
   videoCodec |-> Undefined, audioCodec |-> Undefined, audioFrequency |-> 0,
   videoBitrate |-> Undefined, audioBitrate |-> Undefined, size |-> Undefined,
   addOptions |-> {}]

\* the route's call of cropVideo (99-110), once it has the source file, and cropVideo
\* to the creation of its command (51-80)
cropVideoCalled ==
  /\ status = "accepted"
  /\ options' = [quality |-> orDefault(options.quality, "high"),
                 resolution |-> orDefault(options.resolution, "720p")]
  /\ command' = ffmpegCommand(body.highlight)
  /\ status' = "codecs"
  /\ UNCHANGED <<body, pgVars, ccVars, kyVars, catalog, clock, ms, videosDir, pc, dlVars, rtVars>>

reencode(c, frequency, videoBitrate, audioBitrate) ==
  [c EXCEPT !.videoCodec = "libx264", !.audioCodec = "aac",
            !.audioFrequency = frequency, !.videoBitrate = videoBitrate,
            !.audioBitrate = audioBitrate]

\* switch (quality) (83-148)
withCodecs(c, q, r) ==
  CASE q = "lossless" ->
         [c EXCEPT !.videoCodec = "copy", !.audioCodec = "copy",
                   !.addOptions = {"-avoid_negative_ts make_zero", "-movflags +faststart"}]
    [] q = "youtube" ->
         reencode(c, 48000,
                  IF r = "1080p" THEN "8000k" ELSE IF r = "720p" THEN "5000k" ELSE "3000k",
                  "320k")
    [] q = "high" -> reencode(c, 48000, "4000k", "192k")
    [] q = "medium" -> reencode(c, 44100, "2000k", "128k")
    [] q = "low" -> reencode(c, 44100, "1000k", "96k")
    [] OTHER -> c

resolutionMap ==
  [r \in {"1080p", "720p", "480p", "360p"} |->
     CASE r = "1080p" -> "1920x1080"
       [] r = "720p" -> "1280x720"
       [] r = "480p" -> "854x480"
       [] r = "360p" -> "640x360"]

withSizeLosslessToo(c, q, r) ==
  IF r # "original" /\ r \in DOMAIN resolutionMap
  THEN [c EXCEPT !.size = resolutionMap[r]]
  ELSE c

\* "Set resolution" (150-162)
withSize(c, q, r) ==
  IF q # "lossless" /\ r # "original"
  THEN IF r \in DOMAIN resolutionMap /\ r # "original"
       THEN [c EXCEPT !.size = resolutionMap[r]]
       ELSE c
  ELSE c

\* the options added by quality (164-194)
withOptions(c, q) ==
  IF q = "lossless" THEN c
  ELSE IF q = "youtube"
  THEN [c EXCEPT !.addOptions = @ \cup
          {"-preset medium", "-profile:v high", "-level 4.0", "-pix_fmt yuv420p",
           "-movflags +faststart", "-avoid_negative_ts make_zero", "-g 30",
           "-keyint_min 30", "-sc_threshold 0", "-b_strategy 1", "-bf 3", "-refs 3"}]
  ELSE [c EXCEPT !.addOptions = @ \cup
          {"-preset medium", "-profile:v high", "-pix_fmt yuv420p",
           "-movflags +faststart", "-avoid_negative_ts make_zero"}]

setCodecs ==
  /\ status = "codecs"
  /\ command' = withCodecs(command, options.quality, options.resolution)
  /\ status' = "size"
  /\ UNCHANGED <<body, options, pgVars, ccVars, kyVars, catalog, clock, ms, videosDir, pc,
                 dlVars, rtVars>>

setSize ==
  /\ status = "size"
  /\ command' = withSize(command, options.quality, options.resolution)
  /\ status' = "options"
  /\ UNCHANGED <<body, options, pgVars, ccVars, kyVars, catalog, clock, ms, videosDir, pc,
                 dlVars, rtVars>>

\* the added options, and command.run() (164-227)
setOptionsAndRun ==
  /\ status = "options"
  /\ command' = withOptions(command, options.quality)
  /\ status' = "run"
  /\ UNCHANGED <<body, options, pgVars, ccVars, kyVars, catalog, clock, ms, videosDir, pc,
                 dlVars, rtVars>>

\* a request has arrived, its url names a video and its body has a highlight
InitCrop ==
  /\ InitProgressIdle
  /\ InitClearIdle
  /\ InitKeysIdle
  /\ InitProcess
  /\ body \in Bodies
  /\ status = "received"
  /\ options = None
  /\ command = None
  /\ pc = [t \in Tasks |-> "idle"]
  /\ catalog \in RouteCatalogs
  /\ videosDir = {}
  /\ readdirOrder = "asc"

NextCrop ==
  \/ validateHighlight
  \/ cropVideoCalled
  \/ setCodecs
  \/ setSize
  \/ setOptionsAndRun

SpecCrop == InitCrop /\ [][NextCrop]_vars

(* ----------------------- POST /api/clear-cache -------------------------- *)
ClearHour == 5         \* the hour at which the cache is cleared
MaxSegments == 2       \* most segment files in tmp/highlights then

ClearTypes == {"all", "downloads", "cropped"}

\* clearDirectory(dirPath, description) on a directory of plain files (97-150):
\* every file is unlinked; a directory that does not exist is left alone
clearDirectory(dir) == {}

\* POST from request.json() to its success response (11-77): tmp/videos is emptied
\* and the download service sweeps; tmp/cropped is emptied and the cropping
\* service sweeps tmp/highlights; tmp/uploads, tmp/processing and tmp/temp hold
\* no file of the caches
clearCache(clearType) ==
  /\ cleared = "none"
  /\ videosDir' = IF clearType \in {"all", "downloads"}
                  THEN swept(clearDirectory(videosDir), videoMaxFileAge)
                  ELSE videosDir
  /\ croppedDir' = IF clearType \in {"all", "cropped"}
                   THEN clearDirectory(croppedDir)
                   ELSE croppedDir
  /\ highlightsDir' = IF clearType \in {"all", "cropped"}
                      THEN swept(highlightsDir, cropMaxFileAge)
                      ELSE highlightsDir
  /\ cleared' = clearType
  /\ UNCHANGED <<pgVars, crVars, kyVars, catalog, clock, ms, pc, dlVars, pending, readdirOrder,
                 nreq, files, cand, videoFilePath, cropStamp, outcome, lastOk, basis>>

\* the files earlier requests left in tmp/highlights
SegmentFiles ==
  { [name |-> cropName(k), mtime |-> m, partial |-> FALSE] :
      k \in 1..MaxSegments, m \in 0..ClearHour }
SegmentDirs ==
  { d \in SUBSET SegmentFiles : \A f, g \in d : f.name = g.name => f = g }
SourceDirs ==
  { d \in SUBSET { [name |-> <<VideoId, "dest", k>>, mtime |-> m, partial |-> FALSE] :
                     k \in 1..MaxSegments, m \in {0, ClearHour} } :
      \A f, g \in d : f.name = g.name => f = g }

\* no request is running; the caches hold what earlier requests left
InitClear ==
  /\ InitProgressIdle
  /\ InitCropIdle
  /\ InitClearIdle
  /\ InitKeysIdle
  /\ clock = ClearHour
  /\ ms = MaxSegments
  /\ catalog \in RouteCatalogs
  /\ readdirOrder = "asc"
  /\ videosDir \in SourceDirs
  /\ highlightsDir \in SegmentDirs
  /\ pc = [t \in Tasks |-> "idle"]
  /\ quality = [t \in Tasks |-> "highest"]
  /\ maxRetries = [t \in Tasks |-> defaultMaxRetries]
  /\ attempt = [t \in Tasks |-> 0]
  /\ filePath = [t \in Tasks |-> 0]
  /\ tempStamp = [t \in Tasks |-> 0]
  /\ lastError = [t \in Tasks |-> NoError]
  /\ requested = [t \in Tasks |-> {}]
  /\ merged = [t \in Tasks |-> FALSE]
  /\ waits = [t \in Tasks |-> <<>>]
  /\ dirBefore = [t \in Tasks |-> {}]
  /\ pending = {}
  /\ nreq = 0
  /\ files = [t \in Tasks |-> NoListing]
  /\ cand = [t \in Tasks |-> None]
  /\ videoFilePath = [t \in Tasks |-> None]
  /\ cropStamp = [t \in Tasks |-> 0]
  /\ outcome = [t \in Tasks |-> "none"]
  /\ lastOk = None
  /\ basis = [t \in Tasks |-> None]

NextClear ==
  \/ \E clearType \in ClearTypes : clearCache(clearType)
  \/ cleared # "none" /\ POST(1)
  \/ croppedStat(1)

SpecClear == InitClear /\ [][NextClear]_vars

(* --------- downloadVideo on catalogs with two formats of one rank ------- *)
\* info.formats of a source that has 1080p mp4 video twice (itag 137 avc1, 399 av01)
TieUniverse == FormatUniverse \cup { Fmt(399, "videoonly", "mp4", 1080, 0) }
TieCatalogs == SeqsNoRep(TieUniverse, MaxFormats)

InitSelect ==
  /\ InitCommon
  /\ pc = [t \in Tasks |-> IF t = 1 THEN "ensureTempDir" ELSE "idle"]
  /\ readdirOrder = "asc"
  /\ catalog \in TieCatalogs
  /\ videosDir = {oldSourceFile}

SpecSelect == InitSelect /\ [][NextDownload]_vars

(* ------------- segment file names, and hasCroppedFile on them ----------- *)
MaxTitle == 4          \* longest highlight.title, in characters
MaxProduced == 1       \* files in tmp/highlights when the lookup runs
sanitizeLimit == 50

\* strings are sequences of characters; ".mp4" stands for the extension
KeyVideoIds == { <<"v">>, <<"w">> }
KeyHighlightIds == { <<"a">>, <<"a", "_", "b">> }
TitleChars == {"w", "a", " ", "!"}
Titles == UNION { [1..n -> TitleChars] : n \in 0..MaxTitle }
\* the quality and resolution of a request
Renditions == { <<"lossless", "original">>, <<"youtube", "1080p">>, <<"low", "360p">> }

\* [a-zA-Z0-9\s-_]: the characters sanitizeFilename keeps
kept(c) == c \in {"w", "a", " ", "-", "_", "v", "b"}

RECURSIVE collapseSpaces(_)
\* .replace(/\s+/g, '_')
collapseSpaces(s) ==
  IF s = <<>> THEN <<>>
  ELSE IF Head(s) = " "
       THEN IF Len(s) > 1 /\ s[2] = " "
            THEN collapseSpaces(Tail(s))
            ELSE <<"_">> \o collapseSpaces(Tail(s))
       ELSE <<Head(s)>> \o collapseSpaces(Tail(s))

\* sanitizeFilename(filename) (part_003 359-364)
sanitizeFilename(filename) ==
  LET stripped == SelectSeq(filename, kept)
      joined == collapseSpaces(stripped)
  IN  SubSeq(joined, 1, IF Len(joined) < sanitizeLimit THEN Len(joined) ELSE sanitizeLimit)

\* `${videoId}_${highlight.id}_${sanitizedTitle}_${timestamp}.${outputFormat}`
outputFileName(videoId, id, title, timestamp) ==
  videoId \o <<"_">> \o id \o <<"_">> \o sanitizeFilename(title) \o <<"_">>
    \o <<ToString(timestamp)>> \o <<".mp4">>

\* String.prototype.includes
includes(s, sub) ==
  \E i \in 1..(Len(s) - Len(sub) + 1) : SubSeq(s, i, i + Len(sub) - 1) = sub

\* file.includes(`${videoId}_${highlightId}_`)
matchesKey(name, videoId, highlightId) ==
  includes(name, videoId \o <<"_">> \o highlightId \o <<"_">>)

\* cropVideo has written its output (69-73, 207-218) for a request
cropProduces(videoId, id, title, rendition) ==
  /\ Cardinality(outputDir) < MaxProduced
  /\ ms' = ms + 1
  /\ outputDir' = outputDir \cup
       { [name |-> outputFileName(videoId, id, title, ms + 1),
          videoId |-> videoId, id |-> id,
          quality |-> rendition[1], resolution |-> rendition[2]] }
  /\ UNCHANGED <<lookedUp, returned, pgVars, crVars, ccVars, catalog, clock, videosDir,
                 pc, dlVars, rtVars>>

\* the route's hasCroppedFile(videoId, highlight.id) (part_009 43; part_003 264-288)
\* on unexpired files: the first listed name that matches, whatever the request's
\* quality and resolution; readdir lists in any order
hasCroppedFile(videoId, highlightId, rendition) ==
  /\ lookedUp' = [videoId |-> videoId, id |-> highlightId,
                  quality |-> rendition[1], resolution |-> rendition[2]]
  /\ LET matching == { f \in outputDir : matchesKey(f.name, videoId, highlightId) }
     IN  IF matching = {} THEN returned' = None
         ELSE \E f \in matching : returned' = f
  /\ UNCHANGED <<outputDir, pgVars, crVars, ccVars, catalog, clock, ms, videosDir,
                 pc, dlVars, rtVars>>

InitKeys ==
  /\ InitCommon
  /\ pc = [t \in Tasks |-> "idle"]
  /\ catalog \in RouteCatalogs
  /\ videosDir = {}
  /\ readdirOrder = "asc"

NextKeys ==
  \/ \E videoId \in KeyVideoIds, id \in KeyHighlightIds, title \in Titles,
        rendition \in Renditions : cropProduces(videoId, id, title, rendition)
  \/ \E videoId \in KeyVideoIds, id \in KeyHighlightIds, rendition \in Renditions :
        hasCroppedFile(videoId, id, rendition)

SpecKeys == InitKeys /\ [][NextKeys]_vars

(* ------------------------- claims on downloadVideo ---------------------- *)
CatalogSet == { catalog[i] : i \in 1..Len(catalog) }
FormatOf(itag) == CHOOSE f \in CatalogSet : f.itag = itag
HasHighResVideoOnly ==
  \E f \in CatalogSet : f.kind = "videoonly" /\ f.height >= 720
LowestCombined == [filter |-> "videoandaudio", quality |-> "lowest", itag |-> 0]
OnSeparatePath(t) == pc[t] \in {"dlVideo", "dlAudio", "merge"}
AttemptOver(t) == pc[t] \in {"backoff", "rejected", "resolved"}

\* C1 (as claimed): every attempt after the first asks for nothing but one combined
\* stream at lowest quality, downloads no separate stream and runs no merge.
C1_RetryDowngrade ==
  \A t \in Tasks :
    attempt[t] >= 2 =>
      /\ ~OnSeparatePath(t)
      /\ ~merged[t]
      /\ requested[t] \subseteq {LowestCombined}

\* C2 (as claimed): once an attempt has failed, tmp/videos holds exactly the files
\* it held when the attempt began.
C2_CleanupInvariant ==
  \A t \in Tasks :
    pc[t] \in {"backoff", "rejected"} => Names(videosDir) = dirBefore[t]

FatalMessages ==
  {"No suitable video formats available", "restricted", "File write failed", "write error"}

\* C3 (as claimed): an attempt that fails with a fatal error makes downloadVideo
\* reject at once: no backoff, no further attempt; after a fatal first attempt the
\* number of attempts is 1 and nothing was waited.
C3_FatalNotRetried ==
  \A t \in Tasks :
    lastError[t].msg \in FatalMessages =>
      /\ pc[t] = "rejected"
      /\ attempt[t] = lastError[t].attempt
      /\ (lastError[t].attempt = 1 => waits[t] = <<>>)

VideoOnlySet == { f \in CatalogSet : f.kind = "videoonly" }
AudioOnlySet == { f \in CatalogSet : f.kind = "audioonly" }
ItagRequests(t) == { FormatOf(r.itag) : r \in { q \in requested[t] : q.filter = "itag" } }
FirstListed(S) ==
  CHOOSE f \in S : \A g \in S :
    (CHOOSE i \in 1..Len(catalog) : catalog[i] = f) <=
    (CHOOSE j \in 1..Len(catalog) : catalog[j] = g)

Mp4WithHeight == { g \in VideoOnlySet : g.container = "mp4" /\ g.height # 0 }
WebmOrM4a == { g \in AudioOnlySet : g.container \in {"webm", "m4a"} }

SeparatePairDone(t) ==
  /\ merged[t]
  /\ Cardinality(requested[t]) = 2
  /\ { f.kind : f \in ItagRequests(t) } = {"videoonly", "audioonly"}

C8_DownloadsOverlap ==
  \A t \in Tasks :
    pc[t] = "dlVideo" =>
      \E f \in ItagRequests(t) : f.kind = "audioonly"

\* C10: the waits awaited so far are 2^1, 2^2, ... seconds, one after each failed
\* attempt that is followed by another: none before attempt 1, none after the last.
C10_BackoffSchedule ==
  \A t \in Tasks :
    /\ \A i \in 1..Len(waits[t]) : waits[t][i] = 2 ^ i
    /\ pc[t] = "backoff" => (Len(waits[t]) = attempt[t] /\ attempt[t] < maxRetries[t])
    /\ pc[t] \in {"getInfo", "combined", "dlVideo", "dlAudio", "merge", "resolved"}
         => Len(waits[t]) = attempt[t] - 1
    /\ pc[t] = "rejected" =>
         /\ Len(waits[t]) = attempt[t] - 1
         /\ maxRetries[t] >= 1 => attempt[t] = maxRetries[t]

\* C10 witness: three attempts failed under maxRetries = 3, after waits of 2 s and 4 s
C10_Witness ==
  pc[1] = "rejected" /\ maxRetries[1] = 3 /\ attempt[1] = 3 /\ waits[1] = <<2, 4>>

(* ------------------------- claims on the caches ------------------------ *)
\* the whole, unexpired files for the key that the lookup of task t listed, in a
\* lookup during which no hour has passed and the file it found was not removed
FreshListed(t, dir) ==
  IF files[t].at = clock /\ cand[t] \in Names(dir)
  THEN { f \in dir : f.name \in files[t].names /\ ~f.partial }
  ELSE {}
FreshSources(t) ==
  { f \in FreshListed(t, videosDir) : startsWithVideoId(f.name) /\ clock - f.mtime < 2 }
FreshSegments(t) ==
  { f \in FreshListed(t, highlightsDir) : includesKey(f.name) /\ clock - f.mtime < 4 }

\* C4: a lookup whose directory holds an unexpired file for the key, with nothing
\* expired, registered or evicted since it listed the directory, returns a path and
\* starts no acquisition: hasVideoFile hands the route a videoFilePath,
\* hasCroppedFile has it serve the file
C4_LookupIdempotent ==
  [][\A t \in Tasks :
       /\ (pc[t] = "statVideo" /\ pc'[t] # pc[t] /\ FreshSources(t) # {})
          => (videoFilePath'[t] # None /\ pc'[t] # "ensureTempDir")
       /\ (pc[t] = "statCropped" /\ pc'[t] # pc[t] /\ FreshSegments(t) # {})
          => pc'[t] = "idle"]_vars

\* C5: a lookup returns a path only of a file on disk whose age is below the TTL
\* (2 hours for sources, 4 for segments); a found file of age >= TTL is deleted and
\* the lookup returns absent
C5_LookupFreshness ==
  [][\A t \in Tasks :
       /\ (pc[t] = "statVideo" /\ pc'[t] # pc[t]) =>
            /\ videoFilePath'[t] # None =>
                 /\ videoFilePath'[t] = cand[t]
                 /\ \E f \in videosDir : f.name = cand[t] /\ clock - f.mtime < 2
            /\ (\E f \in videosDir : f.name = cand[t] /\ clock - f.mtime >= 2) =>
                 /\ cand[t] \notin Names(videosDir')
                 /\ videoFilePath'[t] = None
                 /\ pc'[t] = "ensureTempDir"
       /\ (pc[t] = "statCropped" /\ pc'[t] # pc[t]) =>
            /\ pc'[t] = "idle" =>
                 /\ lastOk' = cand[t]
                 /\ \E f \in highlightsDir : f.name = cand[t] /\ clock - f.mtime < 4
            /\ (\E f \in highlightsDir : f.name = cand[t] /\ clock - f.mtime >= 4) =>
                 /\ cand[t] \notin Names(highlightsDir')
                 /\ pc'[t] # "idle"]_vars

\* both lookups have met a file of age >= TTL: a segment lookup has just deleted
\* one, and the source lookup that follows it found an expired source as well
C5_Witness ==
  \E t \in Tasks :
    /\ outcome[t] = "cropExpired"
    /\ pc[t] = "statVideo"
    /\ \E f \in videosDir : f.name = cand[t] /\ clock - f.mtime >= 2

\* C9: a request made after an identical one was answered with a file, with that
\* file still in tmp/highlights and younger than its TTL and no sweep since,
\* fetches no catalog, downloads, merges and crops nothing
C9_SecondRequestFromCache ==
  \A t \in Tasks :
    (basis[t] # None
       /\ \E f \in highlightsDir : f.name = basis[t] /\ clock - f.mtime < 4)
    => pc[t] \in {"idle", "statCropped", "statVideo", "ensureTempDir", "ensureOutputDir"}

(* ---------------------- claims on the error surfaced -------------------- *)
\* the messages an attempt can fail with at each point of the download
MessagesAt(where) ==
  IF where = "getInfo"
  THEN GetInfoFailures \cup {"No suitable video formats available",
                             "No suitable video-only format found",
                             "No suitable audio-only format found"}
  ELSE IF where = "combined" THEN StreamFailures
  ELSE IF where \in {"dlVideo", "dlAudio"} THEN SeparateFailures
  ELSE IF where = "merge" THEN MergeFailures \cup {"FFmpeg spawn failed"}
  ELSE {}

\* C11: when the last of maxRetries >= 1 attempts fails, downloadVideo rejects with
\* the error of that attempt: it carries the number of the last attempt and a
\* message of the stage at which that attempt failed, whatever failed before
C11_LastErrorOnly ==
  [][\A t \in Tasks :
       (pc'[t] = "rejected" /\ pc[t] # "rejected" /\ maxRetries'[t] >= 1)
       => /\ attempt[t] = maxRetries[t]
          /\ lastError'[t].attempt = maxRetries[t]
          /\ lastError'[t].msg \in MessagesAt(pc[t])]_vars

\* C11 witness: the third attempt failed in the combined download after an earlier
\* attempt had failed with another error, and downloadVideo has rejected
C11_Witness ==
  /\ pc[1] = "rejected"
  /\ maxRetries[1] = 3
  /\ lastError[1] = [msg |-> "Download timeout", attempt |-> 3]
  /\ Len(waits[1]) = 2

\* C12: once an attempt that went through downloadAndMergeStreams is over, resolved
\* or failed at whichever step, neither of its two temp files is in tmp/videos
C12_MergeInputsRemoved ==
  \A t \in Tasks :
    (AttemptOver(t) /\ tempStamp[t] > 0)
    => /\ tempVideoName(tempStamp[t]) \notin Names(videosDir)
       /\ tempAudioName(tempStamp[t]) \notin Names(videosDir)

\* C12 witness: both streams were downloaded and the merge then timed out
C12_Witness ==
  /\ pc[1] = "backoff"
  /\ tempStamp[1] > 0
  /\ lastError[1].msg = "FFmpeg merge timeout"

(* ------------------------- claims on cropVideo ------------------------- *)
\* the steps by which the cropVideo call of task t rejects: ffmpeg's 'error', or the
\* 'end' handler whose stat failed (the route then answers without a served file)
CropRejects(t) ==
  /\ pc[t] \in {"cropping", "cropNoInput", "cropStat"}
  /\ pc'[t] = "idle"
  /\ lastOk' = lastOk
  /\ lastOk # cropName(cropStamp[t])

\* C13: whenever cropVideo rejects, the output file of that crop is not in
\* tmp/highlights afterwards
C13_CropFailureRemovesOutput ==
  [][\A t \in Tasks :
       CropRejects(t) => cropName(cropStamp[t]) \notin Names(highlightsDir')]_vars

(* ----------------------- claims on cleanupOldFiles ---------------------- *)
\* C14: when cleanupOldFiles returns, no file older than the TTL (2 hours for
\* tmp/videos) is left in the directory, whatever else the directory holds, and the
\* files it removed were all older than the TTL
C14_SweepComplete ==
  [][/\ (pc[2] \in {"sweepStart", "sweepStat"} /\ pc'[2] = "idle")
          => \A f \in videosDir' : clock - f.mtime <= 2
     /\ (pc[2] = "sweepStat" /\ files'[2] # files[2])
          => \A f \in videosDir \ videosDir' : clock - f.mtime > 2]_vars

(* ----------------------- claims on format selection --------------------- *)
NoSuitableMessages ==
  {"No suitable video formats available", "No suitable video-only format found",
   "No suitable audio-only format found"}
HasCombined == filterFormats(catalog, "videoandaudio") # <<>>
HasPair == VideoOnlySet # {} /\ AudioOnlySet # {}
FailedNoSuitable(t) ==
  /\ pc[t] \in {"backoff", "rejected"}
  /\ lastError[t].attempt = attempt[t]
  /\ lastError[t].msg \in NoSuitableMessages

\* C15: no attempt fails with a no-suitable-format error unless the catalog has
\* neither a combined format nor a video-only plus audio-only pair; in particular,
\* with a combined format in the catalog every attempt gets to request a stream
C15_NoSuitableFormatOnlyIfNeither ==
  \A t \in Tasks : FailedNoSuitable(t) => ~(HasCombined \/ HasPair)

(* --------------------------- claims on deadlines ------------------------ *)
Operations == {"getInfo", "combined", "dlVideo", "dlAudio", "merge"}

\* C16: every network and subprocess operation of a download carries a deadline:
\* the catalog fetch, the combined download, each separate stream download and the
\* merge are each left, at the latest when their timer fires
C16_OperationsHaveDeadlines ==
  \A t \in Tasks : \A op \in Operations : (pc[t] = op) ~> (pc[t] # op)

(* ------------------------ claims on onProgress -------------------------- *)
\* C17: onProgress is called at most once in any 2-second window, apart from the
\* one call made when the download reaches 100%
C17_ProgressThrottled ==
  \A i, j \in 1..Len(calls) :
    i < j => (calls[j].at - calls[i].at >= 2 \/ calls[j].percentage >= 100)

(* ------------------------ claims on cropVideo --------------------------- *)
Reencoded(c, videoBitrate, audioBitrate, frequency) ==
  /\ c.videoCodec \notin {"copy", Undefined}
  /\ c.audioCodec \notin {"copy", Undefined}
  /\ c.videoBitrate = videoBitrate
  /\ c.audioBitrate = audioBitrate
  /\ c.audioFrequency = frequency

WellFormed(h) ==
  /\ ~falsyString(h, "id")
  /\ "startSeconds" \in DOMAIN h
  /\ "endSeconds" \in DOMAIN h
  /\ 0 <= h["startSeconds"]
  /\ h["startSeconds"] < h["endSeconds"]

\* C20: the route accepts a highlight exactly when it has an id and
\* 0 <= startSeconds < endSeconds
C20_AcceptsExactlyWellFormed ==
  status # "received" => ((status # "400") <=> WellFormed(body.highlight))

(* ------------------------ claims on clear-cache ------------------------- *)
\* C19: once clear-cache has answered success, clearType 'all' has left no file in
\* tmp/videos, and 'all' and 'cropped' have left no segment file in tmp/highlights,
\* so that hasCroppedFile finds nothing for the request that follows and no
\* segment is served from the cache
C19_ClearLeavesNothing ==
  /\ cleared = "all" => videosDir = {}
  /\ cleared \in {"all", "cropped"} =>
       /\ highlightsDir = {}
       /\ pc[1] # "statCropped"
       /\ lastOk = None

(* --------------------- claims on format selection ----------------------- *)
\* two formats the selection ranks alike: same kind, container, height and bitrate
EqualRank(f, g) ==
  /\ f.kind = g.kind
  /\ f.container = g.container
  /\ f.height = g.height
  /\ f.audioBitrate = g.audioBitrate

\* the catalog listed in another order that only exchanges formats of equal rank
Listings(formats) ==
  { p \in { [i \in 1..Len(formats) |-> formats[f[i]]] : f \in Permutations(1..Len(formats)) } :
      \A i \in 1..Len(formats) : EqualRank(p[i], formats[i]) }

\* C21: the formats an attempt requests are those it would request from the same
\* catalog listed with formats of equal rank in another order
C21_SelectionIgnoresListingOrder ==
  \A t \in Tasks : \A p \in Listings(catalog) :
    /\ pc[t] \in {"dlVideo", "dlAudio", "merge"} =>
         itagRequest(bestVideoFormat(p)) \in requested[t]
    /\ pc[t] \in {"dlAudio", "merge"} =>
         itagRequest(bestAudioFormat(p)) \in requested[t]
    /\ highResVideoFormats(p) = <<>> <=> highResVideoFormats(catalog) = <<>>
    /\ filterFormats(p, "videoandaudio") = <<>> <=> filterFormats(catalog, "videoandaudio") = <<>>

(* ------------------ claims on lookups during downloads ------------------ *)
\* C22: the path hasVideoFile returns names a completely written destination file,
\* never a file still being written and never a temp stream file
C22_LookupNotPartial ==
  [][\A t \in Tasks :
       (pc[t] = "statVideo" /\ pc'[t] = "ensureOutputDir") =>
         \A f \in FileNamed(videosDir, videoFilePath'[t]) :
           ~f.partial /\ f.name[2] = "dest"]_vars

\* a downloadVideo call of task t is between its choice of filePath and its return
Downloading(t) ==
  pc[t] \in {"getInfo", "combined", "dlVideo", "dlAudio", "merge", "backoff", "resolved"}
WholeSources(dir) == { f \in dir : ~f.partial /\ f.name[2] = "dest" }

\* C23: two concurrent downloads of one source write to destination files of their
\* own; a lookup returns the whole file registered last; a sweep leaves no duplicate
C23_ConcurrentAcquisitions ==
  [][/\ \A t, u \in Tasks :
          (t # u /\ Downloading(t) /\ Downloading(u)) => destName(t) # destName(u)
     /\ \A t \in Tasks :
          (pc[t] = "statVideo" /\ pc'[t] = "ensureOutputDir") =>
            \A f \in FileNamed(videosDir, videoFilePath'[t]) :
              \A g \in WholeSources(videosDir) : g.mtime <= f.mtime
     /\ ("videos" \in pending \ pending' /\ \A t \in Tasks : pc[t] = "idle") =>
          Cardinality(WholeSources(videosDir')) <= 1]_vars

(* ----------------- claims on files in use by a request ------------------ *)
\* C24: the source file a request got from hasVideoFile or downloadVideo is on disk
\* when its crop starts to read it, and the segment file it serves is on disk
C24_FileExistsWhileUsed ==
  [][\A t \in Tasks :
       /\ (pc[t] = "ensureOutputDir" /\ pc'[t] # pc[t]) =>
            FileNamed(videosDir, videoFilePath[t]) # {}
       /\ (pc[t] \in {"statCropped", "cropStat"} /\ pc'[t] = "idle" /\ lastOk' # lastOk) =>
            FileNamed(highlightsDir, lastOk') # {}]_vars

(* --------------------- claims on the segment cache key ------------------ *)
\* C25: hasCroppedFile returns only a file cropVideo produced for the video and the
\* highlight it was asked for
C25_NoKeyCollision ==
  returned # None =>
    (returned.videoId = lookedUp.videoId /\ returned.id = lookedUp.id)

\* C26: a file served from the segment cache for its own key was cropped with the
\* quality and the resolution of the request
C26_CachedSegmentMatchesRequest ==
  (returned # None /\ returned.videoId = lookedUp.videoId /\ returned.id = lookedUp.id) =>
    (returned.quality = lookedUp.quality /\ returned.resolution = lookedUp.resolution)

(* ------------------------ claims on the merge --------------------------- *)
\* the file of that name is in tmp/videos and its write stream has finished
WhollyWritten(name) == \E f \in FileNamed(videosDir, name) : ~f.partial

\* C27: the merge runs only with both the video-only and the audio-only file of the
\* attempt completely written, and an attempt whose stream download failed or timed
\* out has started no merge
C27_MergeAfterBothStreams ==
  \A t \in Tasks :
    /\ pc[t] = "merge" =>
         /\ WhollyWritten(tempVideoName(tempStamp[t]))
         /\ WhollyWritten(tempAudioName(tempStamp[t]))
    /\ merged[t] => pc[t] \in {"merge", "resolved", "backoff", "rejected"}
    /\ (pc[t] \in {"backoff", "rejected"} /\ lastError[t].msg \in SeparateFailures) =>
         ~merged[t]

C27_Witness ==
  /\ pc[1] = "merge"
  /\ attempt[1] = 2
  /\ lastError[1].msg = "Stream download timeout"
  /\ WhollyWritten(tempVideoName(tempStamp[1]))
  /\ WhollyWritten(tempAudioName(tempStamp[1]))

(* ------------------ claims on the options of cropVideo ------------------ *)
PixelFormatOptions == {"-pix_fmt yuv420p"}
KeyframeOptions == {"-g 30", "-keyint_min 30"}

\* C28: every re-encode tier adds a pixel format, a keyframe interval and the
\* faststart flag; lossless adds the timestamp correction and neither a pixel
\* format nor a keyframe option
C28_ReencodeExtras ==
  status = "run" =>
    IF options.quality = "lossless"
    THEN /\ "-avoid_negative_ts make_zero" \in command.addOptions
         /\ command.addOptions \cap (PixelFormatOptions \cup KeyframeOptions) = {}
    ELSE /\ command.addOptions \cap PixelFormatOptions # {}
         /\ command.addOptions \cap KeyframeOptions # {}
         /\ "-movflags +faststart" \in command.addOptions

(* ------------------- claims on the attempts of a call ------------------- *)
\* C29: after an attempt that wrote to the destination path has failed, the next
\* attempt of the call has a destination path of its own
C29_DistinctPathPerAttempt ==
  [][\A t \in Tasks :
       (pc[t] = "backoff" /\ pc'[t] = "getInfo" /\ lastError[t].msg \in StreamFailures) =>
         destName(t)' # destName(t)]_vars

\* C30: a call with maxRetries >= 1 makes at most maxRetries attempts and
\* maxRetries - 1 waits; it resolves only out of an attempt that succeeded, with the
\* file of that attempt, and makes no attempt after it; and once under way it
\* resolves or rejects
C30_BoundedRetriesAndTermination ==
  /\ [](\A t \in Tasks :
          maxRetries[t] >= 1 =>
            /\ attempt[t] <= maxRetries[t]
            /\ Len(waits[t]) <= maxRetries[t] - 1
            /\ pc[t] = "resolved" => WhollyWritten(destName(t)))
  /\ [][\A t \in Tasks :
          /\ (pc'[t] = "resolved" /\ pc[t] # "resolved") => pc[t] \in {"combined", "merge"}
          /\ pc[t] \in {"resolved", "rejected"} => (pc'[t] = pc[t] /\ attempt'[t] = attempt[t])]_vars
  /\ (pc[1] = "getInfo") ~> (pc[1] \in {"resolved", "rejected"})

C30_Witness ==
  /\ pc[1] = "resolved"
  /\ maxRetries[1] = 3
  /\ attempt[1] = 3
  /\ waits[1] = <<2, 4>>
  /\ WhollyWritten(destName(1))

====
